---- MODULE Spec2Model ----
(***************************************************************************)
(* Rainflow cycle counting with Goodman correction                         *)
(* (src/lib/rainflow/rainflow.py), modelled statement by statement.        *)
(*                                                                         *)
(* Numbers.  Turning points are integers.  Every quotient the code forms   *)
(* (mean, adj_range, adj_zero_mean_range) is kept as a reduced fraction    *)
(* <<numerator, denominator>> with denominator > 0; a float64 division by  *)
(* zero gives <<1,0>> (+inf), <<-1,0>> (-inf) or <<0,0>> (nan), as numpy   *)
(* does (it warns, it does not raise).  The cycle count row is kept in     *)
(* hundredths (1.00 is 100, 0.5 is 50).                                    *)
(***************************************************************************)
EXTENDS Integers, Sequences, FiniteSets, TLC

VARIABLES array_ext,   \* argument: the turning points (0-based function)
          flm,         \* argument: fixed-load mean
          l_ult,       \* argument: ultimate load
          uc_mult,     \* argument: partial-load scaling, in hundredths
          flmargin,    \* local: fixed load margin
          tot_num,     \* local: size of the input array
          array_out,   \* local: output columns (1-based sequence of records)
          pr,          \* local: index of input array
          po,          \* local: index of output array
          j,           \* local: index of temporary array "a"
          a,           \* local: temporary array (0-based function)
          written,     \* which cells of "a" have been assigned since np.empty
          i,           \* loop variable of the two for loops
          pc,          \* position in the function body
          err,         \* exception that left the function, or "none"
          kinds,       \* history: branch that wrote each output column
          hist,        \* history: counters of collapses and discards
          origin,      \* history: the input index each cell of "a" holds
          series,      \* CycleCounter: self.data['series']
          delta,       \* CycleCounter: self.delta
          want,        \* the counter configuration the caller has in mind
          max_points,  \* CycleCounter: self.max_points, (position, value) pairs
          min_points,  \* CycleCounter: self.min_points, (position, value) pairs
          mean_soc,    \* CycleCounter: self.mean_soc
          arr_dod,     \* CycleCounter: self.arr_dod
          arr_n,       \* CycleCounter: self.arr_n
          arr_soc_mean, \* CycleCounter: self.arr_soc_mean
          apc,         \* position in CycleCounter, "direct" for a bare call
          data_file_paths, \* CyclingDegModelFit: per file, the parts of the
                       \* name of its second column between underscores
          file,        \* CyclingDegModelFit: position of the for loop
          cyc_nb_v,    \* CyclingDegModelFit: self.cyc_nb_v, by file position
          dod_v,       \* CyclingDegModelFit: self.dod_v, by file position
          chemistry,   \* local of fit_stress_model_dod
          params,      \* local of fit_stress_model_dod: name -> value, vary
          residuals,   \* local of fit_stress_model_dod: the function chosen
          opt_params,  \* CyclingDegModelFit: self.opt_params (names fitted)
          self_chemistry, \* CyclingDegModelFit: self.chemistry
          fits,        \* history: the calls of minimize
          fpc,         \* position in fit_stress_model_dod
          fit_err      \* what ended fit_stress_model_dod early, or "none"

\* the attributes of a CycleCounter and its caller's wishes
aggvars == <<series, delta, want, max_points, min_points, mean_soc, arr_dod,
             arr_n, arr_soc_mean, apc>>

\* the attributes and locals of a CyclingDegModelFit
fitvars == <<data_file_paths, file, cyc_nb_v, dod_v, chemistry, params,
             residuals, opt_params, self_chemistry, fits, fpc, fit_err>>

vars == <<array_ext, flm, l_ult, uc_mult, flmargin, tot_num, array_out, pr, po,
          j, a, written, i, pc, err, kinds, hist, origin, aggvars, fitvars>>

(***************************************************************************)
(* Bounds of the model                                                     *)
(***************************************************************************)
MaxLen == 5
MaxVal == 2

Values == 0..MaxVal

\* what a read of a cell of np.empty() that was never assigned may return
Garbage == {0, MaxVal}

(***************************************************************************)
(* Program constants                                                       *)
(***************************************************************************)
\* default of flm
flm_default == 0
\* default of l_ult; the source has 1e16, which no TLC integer holds: the
\* model uses 10^6, far above every |mean| of the inputs, as 1e16 is
l_ult_default == 1000000
\* default of uc_mult (0.5), in hundredths
uc_mult_default == 50
\* the literal 1.00 of the full-range branch, in hundredths
full_count == 100

\* the array of rainflow_demo.py
demo_array_ext == [k \in 0..8 |-> <<3, -2, 4, 2, 5, -1, 1, 0, 3>>[k + 1]]
\* the alternating sequence 0,1,0,1,0,1,0
alt_array_ext == [k \in 0..6 |-> k % 2]

(***************************************************************************)
(* Arithmetic                                                              *)
(***************************************************************************)
fabs(x) == IF x < 0 THEN -x ELSE x

RECURSIVE GCD(_, _)
GCD(m, n) == IF n = 0 THEN m ELSE GCD(n, m % n)

Sign(x) == IF x > 0 THEN 1 ELSE IF x < 0 THEN -1 ELSE 0

\* float division n / d
Divide(n, d) ==
    IF d = 0 THEN <<Sign(n), 0>>
    ELSE LET g == GCD(fabs(n), fabs(d))
             s == Sign(d)
         IN  <<(s * n) \div g, (s * d) \div g>>

IsFinite(q) == q[2] # 0

(***************************************************************************)
(* Inputs of one call                                                      *)
(***************************************************************************)
\* the turning-point arrays the model calls rainflow with
Inputs ==
    UNION {[0..(n - 1) -> Values] : n \in 0..MaxLen}
        \cup {demo_array_ext, alt_array_ext}

Flms == {flm_default, -1}
LUlts == {-1, 0, 1, l_ult_default}
UcMults == {25, uc_mult_default, full_count}

(***************************************************************************)
(* Array accesses                                                          *)
(***************************************************************************)
\* numpy accepts the indices -size .. size-1 and raises IndexError otherwise
InRange(k) == -tot_num <= k /\ k < tot_num

\* a negative index counts from the end
Wrap(k) == IF k < 0 THEN k + tot_num ELSE k

\* the values a read of a[k] may give: the value assigned, or, for a cell of
\* np.empty() never assigned, whatever the memory held
ReadA(k) == IF Wrap(k) \in written THEN {a[Wrap(k)]} ELSE Garbage

\* one column of np.zeros((5, tot_num - 1))
ZeroColumn ==
    [lrange |-> 0, mean |-> <<0, 1>>, adj_range |-> <<0, 1>>, count |-> 0,
     adj_zero_mean_range |-> <<0, 1>>]

(***************************************************************************)
(* The quantities of one interval with endpoints p, q                      *)
(***************************************************************************)
\* a mean that is not halved
Mean_unhalved(p, q) == Divide(p + q, 1)

\* mean = (p + q) / 2.
Mean(p, q) == Divide(p + q, 2)

\* adj_range = lrange * flmargin / (l_ult - fabs(mean)), both terms doubled
AdjRange(lrange, p, q) ==
    Divide(2 * lrange * flmargin, 2 * l_ult - fabs(p + q))

\* adj_zero_mean_range = lrange * l_ult / (l_ult - fabs(mean)), doubled alike
AdjZeroMeanRange(lrange, p, q) ==
    Divide(2 * lrange * l_ult, 2 * l_ult - fabs(p + q))

Column(lrange, p, q, count) ==
    [lrange |-> lrange, mean |-> Mean(p, q),
     adj_range |-> AdjRange(lrange, p, q), count |-> count,
     adj_zero_mean_range |-> AdjZeroMeanRange(lrange, p, q)]

\* a test that lets a zero range through
Recorded_ge(lrange) == lrange >= 0

\* if (lrange > 0): the test that guards every write of a column
Recorded(lrange) == lrange > 0

\* a partial range counted as a full one
PartialCount_full == full_count

\* array_out[3, po] of the "partial range" branches
PartialCount == uc_mult

\* array_out[3, po] of the "full range" branch
FullCount == full_count

\* a condition that lets the comparison decide one point too early
WhileCond_early(x, y, z) == (j >= 1) /\ (fabs(x - y) <= fabs(z - x))

\* a strict comparison: equal ranges do not close a cycle
WhileCond_strict(x, y, z) == (j >= 2) /\ (fabs(x - y) < fabs(z - x))

\* the two ranges compared the other way round
WhileCond_swapped(x, y, z) == (j >= 2) /\ (fabs(z - x) <= fabs(x - y))

\* the while condition, on the values read from a[j - 1], a[j - 2], a[j];
\* "&" evaluates both sides whatever j is
WhileCond(x, y, z) == (j >= 2) /\ (fabs(x - y) <= fabs(z - x))

\* a full range that takes no point off "a"
FullTop_same == j

\* a full range that takes only one point off "a"
FullTop_one == j - 1

\* j = j - 2 of the "full range" branch
FullTop == j - 2

\* an input pointer that is never advanced
NextPr_stuck == pr

\* pr += 1
NextPr == pr + 1

\* an input array that shares its memory with "a"
InputAfter_alias(new_a) == new_a

\* the input array after "a" was assigned new_a: np.empty() gave "a" memory
\* of its own, and no statement assigns to array_ext
InputAfter(new_a) == array_ext

\* the columns handed back last column first
Sliced_reversed == [k \in 1..po |-> array_out[po + 1 - k]]

\* array_out[:, :po]
Sliced == SubSeq(array_out, 1, po)

\* the if (lrange > 0) block: write column po and advance po, or raise
\* IndexError when po is beyond the columns allocated
Emit(lrange, p, q, count, kind, nextpc) ==
    IF Recorded(lrange)
    THEN IF po + 1 \in DOMAIN array_out
         THEN /\ array_out' =
                    [array_out EXCEPT ![po + 1] = Column(lrange, p, q, count)]
              /\ po' = po + 1
              /\ kinds' = Append(kinds, kind)
              /\ pc' = nextpc
              /\ err' = err
         ELSE /\ pc' = "raised"
              /\ err' = "IndexError"
              /\ UNCHANGED <<array_out, po, kinds>>
    ELSE /\ pc' = nextpc
         /\ UNCHANGED <<array_out, po, kinds, err>>

(***************************************************************************)
(* The call                                                                *)
(***************************************************************************)
\* the history counters before anything happened
NoHist ==
    [half |-> 0, full |-> 0, zero_half |-> 0, zero_full |-> 0,
     zero_residual |-> 0]

\* no CyclingDegModelFit is at work
FitIdle ==
    /\ data_file_paths = <<>>
    /\ file = 0
    /\ cyc_nb_v = <<>>
    /\ dod_v = <<>>
    /\ chemistry = "unbound"
    /\ params = <<>>
    /\ residuals = "unbound"
    /\ opt_params = <<>>
    /\ self_chemistry = <<>>
    /\ fits = <<>>
    /\ fpc = "idle"
    /\ fit_err = "none"

Init ==
    /\ FitIdle
    /\ array_ext \in Inputs
    /\ flm \in Flms
    /\ l_ult \in LUlts
    /\ uc_mult \in UcMults
    /\ flmargin = 0
    /\ tot_num = 0
    /\ array_out = <<>>
    /\ pr = 0
    /\ po = 0
    /\ j = -1
    /\ a = <<>>
    /\ written = {}
    /\ i = 0
    /\ pc = "start"
    /\ err = "none"
    /\ kinds = <<>>
    /\ hist = NoHist
    /\ origin = <<>>
    /\ series = <<>>
    /\ delta = 0
    /\ want = [flm |-> flm, l_ult |-> l_ult, uc_mult |-> uc_mult,
               scale |-> <<1, 1>>]
    /\ max_points = <<>>
    /\ min_points = <<>>
    /\ mean_soc = <<0, 1>>
    /\ arr_dod = <<>>
    /\ arr_n = <<>>
    /\ arr_soc_mean = <<>>
    /\ apc = "direct"

\* an output array one column short
Columns_short(n) == n - 2

\* the number of columns of np.zeros((5, tot_num - 1))
Columns(n) == n - 1

\* lines 72-79: the locals; np.zeros raises ValueError on a negative dimension
Start ==
    /\ pc = "start"
    /\ flmargin' = l_ult - fabs(flm)
    /\ tot_num' = Cardinality(DOMAIN array_ext)
    /\ IF Columns(tot_num') < 0
       THEN /\ pc' = "raised"
            /\ err' = "ValueError"
            /\ UNCHANGED <<array_out, pr, po, j, a, written, origin>>
       ELSE /\ array_out' = [k \in 1..Columns(tot_num') |-> ZeroColumn]
            /\ origin' = [k \in 0..(tot_num' - 1) |-> -1]
            /\ pr' = 0
            /\ po' = 0
            /\ j' = -1
            /\ a' = [k \in 0..(tot_num' - 1) |-> 0]
            /\ written' = {}
            /\ pc' = "for"
            /\ err' = err
    /\ i' = 0
    /\ UNCHANGED <<array_ext, flm, l_ult, uc_mult, kinds, hist>>
    /\ UNCHANGED <<aggvars, fitvars>>

\* lines 82-86: the next turning point goes on top of "a"
Push ==
    /\ pc = "for"
    /\ i < tot_num
    /\ j' = j + 1
    /\ a' = [a EXCEPT ![j + 1] = array_ext[pr]]
    /\ written' = written \cup {j + 1}
    /\ origin' = [origin EXCEPT ![j + 1] = pr]
    /\ array_ext' = InputAfter(a')
    /\ pr' = NextPr
    /\ pc' = "while"
    /\ UNCHANGED <<flm, l_ult, uc_mult, flmargin, tot_num,
                   array_out, po, i, err, kinds, hist>>
    /\ UNCHANGED <<aggvars, fitvars>>

\* line 82: the input is exhausted
ForExit ==
    /\ pc = "for"
    /\ i >= tot_num
    /\ pc' = "residual"
    /\ i' = 0
    /\ UNCHANGED <<array_ext, flm, l_ult, uc_mult, flmargin, tot_num,
                   array_out, pr, po, j, a, written, err, kinds, hist,
                   origin>>
    /\ UNCHANGED <<aggvars, fitvars>>

\* lines 88-89: an index of the condition is out of the bounds of "a"
WhileIndexError ==
    /\ pc = "while"
    /\ ~(InRange(j - 1) /\ InRange(j - 2) /\ InRange(j))
    /\ pc' = "raised"
    /\ err' = "IndexError"
    /\ UNCHANGED <<array_ext, flm, l_ult, uc_mult, flmargin, tot_num,
                   array_out, pr, po, j, a, written, i, kinds, hist,
                   origin>>
    /\ UNCHANGED <<aggvars, fitvars>>

\* lines 88-106: the condition holds with three points in "a" (j == 2)
CollapseHalf ==
    /\ pc = "while"
    /\ InRange(j - 1) /\ InRange(j - 2) /\ InRange(j)
    /\ \E x \in ReadA(j - 1), y \in ReadA(j - 2), z \in ReadA(j) :
           WhileCond(x, y, z)
    /\ j = 2
    /\ LET lrange == fabs(a[j - 1] - a[j - 2])
       IN  /\ a' = [a EXCEPT ![0] = a[1], ![1] = a[2]]
           /\ origin' = [origin EXCEPT ![0] = origin[1], ![1] = origin[2]]
           /\ j' = 1
           /\ Emit(lrange, a[0], a[1], PartialCount, "half", "while")
           /\ hist' = [hist EXCEPT
                         !.half = @ + 1,
                         !.zero_half = @ + (IF Recorded(lrange) THEN 0 ELSE 1)]
    /\ array_ext' = InputAfter(a')
    /\ UNCHANGED <<flm, l_ult, uc_mult, flmargin, tot_num, pr, written, i>>
    /\ UNCHANGED <<aggvars, fitvars>>

\* lines 88-90, 108-121: the condition holds with more than three points
CollapseFull ==
    /\ pc = "while"
    /\ InRange(j - 1) /\ InRange(j - 2) /\ InRange(j)
    /\ \E x \in ReadA(j - 1), y \in ReadA(j - 2), z \in ReadA(j) :
           WhileCond(x, y, z)
    /\ j # 2
    /\ LET lrange == fabs(a[Wrap(j - 1)] - a[Wrap(j - 2)])
       IN  /\ a' = [a EXCEPT ![Wrap(j - 2)] = a[j]]
           /\ origin' = [origin EXCEPT ![Wrap(j - 2)] = origin[j]]
           /\ j' = FullTop
           /\ Emit(lrange, a[Wrap(j - 1)], a[Wrap(j - 2)], FullCount, "full",
                   "while")
           /\ hist' = [hist EXCEPT
                         !.full = @ + 1,
                         !.zero_full = @ + (IF Recorded(lrange) THEN 0 ELSE 1)]
    /\ array_ext' = InputAfter(a')
    /\ UNCHANGED <<flm, l_ult, uc_mult, flmargin, tot_num, pr, written, i>>
    /\ UNCHANGED <<aggvars, fitvars>>

\* lines 88-89: the condition fails; on to the next turning point
WhileExit ==
    /\ pc = "while"
    /\ InRange(j - 1) /\ InRange(j - 2) /\ InRange(j)
    /\ \E x \in ReadA(j - 1), y \in ReadA(j - 2), z \in ReadA(j) :
           ~WhileCond(x, y, z)
    /\ pc' = "for"
    /\ i' = i + 1
    /\ UNCHANGED <<array_ext, flm, l_ult, uc_mult, flmargin, tot_num,
                   array_out, pr, po, j, a, written, err, kinds, hist,
                   origin>>
    /\ UNCHANGED <<aggvars, fitvars>>

\* lines 124-135: one interval left in "a"
Residual ==
    /\ pc = "residual"
    /\ i < j
    /\ LET lrange == fabs(a[i] - a[i + 1])
       IN  /\ Emit(lrange, a[i], a[i + 1], PartialCount, "residual", "residual")
           /\ hist' = [hist EXCEPT
                         !.zero_residual =
                             @ + (IF Recorded(lrange) THEN 0 ELSE 1)]
    /\ i' = i + 1
    /\ UNCHANGED <<array_ext, flm, l_ult, uc_mult, flmargin, tot_num, pr, j,
                   a, written, origin>>
    /\ UNCHANGED <<aggvars, fitvars>>

\* lines 138-140: the unused columns are cut off and the array returned
Return ==
    /\ pc = "residual"
    /\ i >= j
    /\ array_out' = Sliced
    /\ pc' = "done"
    /\ UNCHANGED <<array_ext, flm, l_ult, uc_mult, flmargin, tot_num, pr, po,
                   j, a, written, i, err, kinds, hist, origin>>
    /\ UNCHANGED <<aggvars, fitvars>>

Next ==
    \/ Start
    \/ Push
    \/ ForExit
    \/ WhileIndexError
    \/ CollapseHalf
    \/ CollapseFull
    \/ WhileExit
    \/ Residual
    \/ Return

Spec == Init /\ [][Next]_vars

\* a call with the default keyword arguments
InitDefaults ==
    /\ Init
    /\ flm = flm_default /\ l_ult = l_ult_default /\ uc_mult = uc_mult_default

\* the interpreter runs the call to its end: a statement that can execute
\* does execute
FairSpec == InitDefaults /\ [][Next]_vars /\ WF_vars(Next)

(***************************************************************************)
(* CycleCounter (src/degradation_model/cycle_counting_algorithm.py)        *)
(*                                                                         *)
(* The samples of the series are integers (a state of charge in percent);  *)
(* a turning point is a pair <<position, value>>, positions counted from 0. *)
(***************************************************************************)
MaxSig == 6
MaxSoc == 2

\* the series a CycleCounter is built on
Signals == UNION {[1..n -> 0..MaxSoc] : n \in 0..MaxSig}

\* the thresholds it is built with
Deltas == {1, 2}

\* what the caller would like the counter to run with, and the factor the
\* caller would like the table scaled by (<<1, 1>> when none is wished)
Wants ==
    {[flm |-> flm_default, l_ult |-> l_ult_default, uc_mult |-> uc_mult_default,
      scale |-> <<1, 1>>],
     [flm |-> -1, l_ult |-> 1, uc_mult |-> 25, scale |-> <<1, 10>>]}

\* a confirmation on any move away from the candidate, however small
Moved_any(gap, d) == gap > 0

\* the series is at least d away from the candidate
Moved(gap, d) == gap >= d

\* every confirmed maximum goes into the list, the first sample included
Reported_first(tab, pos, val) == Append(tab, <<pos, val>>)

\* the list of maxima after a candidate was confirmed: a candidate at the
\* very first sample is not reported
Reported(tab, pos, val) == IF pos = 0 THEN tab ELSE Append(tab, <<pos, val>>)

\* pkd.peakdet, one sample: st is the scan so far, this the sample at pos.
\* A candidate is confirmed once the series is at least d away from it on
\* the other side; a candidate at the very first sample is not reported.
PeakStep(st, this, pos, d) ==
    LET mx == IF this > st.mx THEN this ELSE st.mx
        mxpos == IF this > st.mx THEN pos ELSE st.mxpos
        mn == IF this < st.mn THEN this ELSE st.mn
        mnpos == IF this < st.mn THEN pos ELSE st.mnpos
    IN  IF st.lookformax
        THEN IF Moved(mx - this, d)
             THEN [st EXCEPT !.mx = mx, !.mxpos = mxpos,
                             !.mn = this, !.mnpos = pos,
                             !.lookformax = FALSE,
                             !.maxtab = Reported(@, mxpos, mx)]
             ELSE [st EXCEPT !.mx = mx, !.mxpos = mxpos,
                             !.mn = mn, !.mnpos = mnpos]
        ELSE IF Moved(this - mn, d)
             THEN [st EXCEPT !.mn = mn, !.mnpos = mnpos,
                             !.mx = this, !.mxpos = pos,
                             !.lookformax = TRUE,
                             !.mintab = Append(@, <<mnpos, mn>>)]
             ELSE [st EXCEPT !.mx = mx, !.mxpos = mxpos,
                             !.mn = mn, !.mnpos = mnpos]

RECURSIVE PeakScan(_, _, _)
\* pkd.peakdet after the first n samples of v
PeakScan(v, d, n) ==
    IF n <= 1
    THEN [mx |-> IF n = 1 THEN v[1] ELSE 0, mxpos |-> 0,
          mn |-> IF n = 1 THEN v[1] ELSE 0, mnpos |-> 0,
          lookformax |-> TRUE, maxtab |-> <<>>, mintab |-> <<>>]
    ELSE PeakStep(PeakScan(v, d, n - 1), v[n], n - 1, d)

\* pkd.peakdet(v, delta): the maxima and the minima
PeakDet(v, d) ==
    LET st == PeakScan(v, d, Len(v))
    IN  [max_points |-> st.maxtab, min_points |-> st.mintab]

\* x put into the key-sorted sequence sq of <<key, item>> pairs, after the
\* pairs whose key is not greater
Inserted(x, sq) ==
    LET n == Cardinality({k \in 1..Len(sq) : sq[k][1] <= x[1]})
    IN  SubSeq(sq, 1, n) \o <<x>> \o SubSeq(sq, n + 1, Len(sq))

RECURSIVE ArgSorted(_)
\* sq[argsort(keys)] for a sequence sq of <<key, item>> pairs
ArgSorted(sq) ==
    IF sq = <<>> THEN <<>>
    ELSE Inserted(sq[Len(sq)], ArgSorted(SubSeq(sq, 1, Len(sq) - 1)))

\* a sort on the value column
SortKey_value(p) == p[2]

\* array_ext[:, 0]: the column the turning points are sorted on
SortKey(p) == p[1]

\* lines 74-77: the turning points concatenated, sorted, and their values
MergedValues ==
    LET both == min_points \o max_points
        sorted == ArgSorted([k \in 1..Len(both) |-> <<SortKey(both[k]), both[k]>>])
    IN  [k \in 0..(Len(both) - 1) |-> sorted[k + 1][2][2]]

\* a call that counts partial cycles as full ones
CallArgs_full == [flm |-> flm_default, l_ult |-> l_ult_default,
                  uc_mult |-> full_count]

\* rf.rainflow(array_ext): the keyword arguments keep their defaults
CallArgs == [flm |-> flm_default, l_ult |-> l_ult_default,
             uc_mult |-> uc_mult_default]

\* the number of turning points passed in
NPoints == Cardinality(DOMAIN array_ext)

RECURSIVE SumSeq(_)
SumSeq(sq) == IF sq = <<>> THEN 0 ELSE sq[Len(sq)] + SumSeq(SubSeq(sq, 1, Len(sq) - 1))

\* the mean of the turning points handed to the counter, as a fraction
SeriesMean_turning ==
    Divide(SumSeq([k \in 1..NPoints |-> array_ext[k - 1]]), 100 * NPoints)

\* np.mean(self.data['series'])/100
SeriesMean == Divide(SumSeq(series), 100 * Len(series))

\* a quotient left in the unit it came in
Percent_same(q) == q

\* q / 100 for a quotient q
Percent(q) == Divide(q[1], 100 * q[2])

\* a sort that reorders the range row and leaves the other rows in place
SortedByRange_rangeonly ==
    LET sorted == ArgSorted([k \in 1..Len(array_out) |->
                                <<array_out[k].lrange, array_out[k]>>])
    IN  [k \in 1..Len(array_out) |->
            [array_out[k] EXCEPT !.lrange = sorted[k][2].lrange]]

\* array_out[:, array_out[0, :].argsort()]
SortedByRange ==
    LET sorted == ArgSorted([k \in 1..Len(array_out) |->
                                <<array_out[k].lrange, array_out[k]>>])
    IN  [k \in 1..Len(array_out) |-> sorted[k][2]]

InitAgg ==
    /\ FitIdle
    /\ series \in Signals
    /\ delta \in Deltas
    /\ want \in Wants
    /\ max_points = <<>>
    /\ min_points = <<>>
    /\ mean_soc = <<0, 1>>
    /\ arr_dod = <<>>
    /\ arr_n = <<>>
    /\ arr_soc_mean = <<>>
    /\ apc = "new"
    /\ array_ext = <<>>
    /\ flm = flm_default
    /\ l_ult = l_ult_default
    /\ uc_mult = uc_mult_default
    /\ flmargin = 0
    /\ tot_num = 0
    /\ array_out = <<>>
    /\ pr = 0
    /\ po = 0
    /\ j = -1
    /\ a = <<>>
    /\ written = {}
    /\ i = 0
    /\ pc = "idle"
    /\ err = "none"
    /\ kinds = <<>>
    /\ hist = NoHist
    /\ origin = <<>>

rfvars == <<array_ext, flm, l_ult, uc_mult, flmargin, tot_num, array_out, pr,
            po, j, a, written, i, pc, err, kinds, hist, origin>>

\* lines 18-48: __init__ with vectors, and turning_points_extraction
Construct ==
    /\ apc = "new"
    /\ mean_soc' = <<0, 1>>
    /\ arr_dod' = <<>>
    /\ arr_n' = <<>>
    /\ max_points' = PeakDet(series, delta).max_points
    /\ min_points' = PeakDet(series, delta).min_points
    /\ apc' = "constructed"
    /\ UNCHANGED <<series, delta, want, arr_soc_mean>>
    /\ UNCHANGED rfvars
    /\ UNCHANGED fitvars

\* lines 73-81: the turning points are merged and rf.rainflow is entered.
\* np.concatenate raises ValueError when one list is empty and the other
\* holds pairs (1-d against 2-d); with both empty the result is 1-d and
\* array_ext[:, 0] raises IndexError
ProcessCall ==
    /\ apc = "constructed"
    /\ IF (min_points = <<>>) # (max_points = <<>>)
       THEN /\ apc' = "raised"
            /\ err' = "ValueError"
            /\ UNCHANGED <<array_ext, flm, l_ult, uc_mult, pc>>
       ELSE IF min_points = <<>>
       THEN /\ apc' = "raised"
            /\ err' = "IndexError"
            /\ UNCHANGED <<array_ext, flm, l_ult, uc_mult, pc>>
       ELSE /\ array_ext' = MergedValues
            /\ flm' = CallArgs.flm
            /\ l_ult' = CallArgs.l_ult
            /\ uc_mult' = CallArgs.uc_mult
            /\ pc' = "start"
            /\ apc' = "counting"
            /\ err' = err
    /\ UNCHANGED <<flmargin, tot_num, array_out, pr, po, j, a, written, i,
                   kinds, hist, origin>>
    /\ UNCHANGED <<series, delta, want, max_points, min_points, mean_soc,
                   arr_dod, arr_n, arr_soc_mean>>
    /\ UNCHANGED fitvars

\* line 81: an exception of rf.rainflow leaves rainflow_process
ProcessRaise ==
    /\ apc = "counting"
    /\ pc = "raised"
    /\ apc' = "raised"
    /\ UNCHANGED <<series, delta, want, max_points, min_points, mean_soc,
                   arr_dod, arr_n, arr_soc_mean>>
    /\ UNCHANGED rfvars
    /\ UNCHANGED fitvars

\* lines 83-90: the columns sorted by range, the mean of the series and the
\* three result arrays
ProcessFinish ==
    /\ apc = "counting"
    /\ pc = "done"
    /\ mean_soc' = SeriesMean
    /\ arr_dod' = [k \in 1..Len(array_out) |->
                       Divide(SortedByRange[k].lrange, 100)]
    /\ arr_n' = [k \in 1..Len(array_out) |-> SortedByRange[k].count]
    /\ arr_soc_mean' = [k \in 1..Len(array_out) |->
                            Percent(SortedByRange[k].mean)]
    /\ apc' = "done"
    /\ UNCHANGED <<series, delta, want, max_points, min_points>>
    /\ UNCHANGED rfvars
    /\ UNCHANGED fitvars

\* rainflow is entered with two points or more here (each list holds one
\* pair at least): the index error of its while condition cannot happen and
\* no exception of rainflow is there to pass on, so WhileIndexError and
\* ProcessRaise are left out
NextAgg ==
    \/ Construct
    \/ ProcessCall
    \/ ProcessFinish
    \/ Start
    \/ Push
    \/ ForExit
    \/ CollapseHalf
    \/ CollapseFull
    \/ WhileExit
    \/ Residual
    \/ Return

SpecAgg == InitAgg /\ [][NextAgg]_vars

(***************************************************************************)
(* CyclingDegModelFit (src/degradation_model/cyc_dod_deg_model_fit.py)     *)
(*                                                                         *)
(* A data file is known by the name of its second column, kept as the      *)
(* sequence of its parts between underscores (what split('_') returns).    *)
(* Every file has a 'DoD' column and a second column.  A parameter value   *)
(* is a quotient <<numerator, denominator>>.                               *)
(***************************************************************************)
MaxFiles == 2

\* the chemistries the files may name
Chemistries == {"LFP", "NMC", "LMO", "NCA", "lfp"}

\* the column names: three parts ending in the chemistry, or a single part
ColumnNames == {<<"cycles", "nb", c>> : c \in Chemistries} \cup {<<"cycles">>}

\* the lists of files a CyclingDegModelFit is built on
FileLists == UNION {[1..n -> ColumnNames] : n \in 0..MaxFiles}

\* the names of the three parameters
ParamNames == {"k_d1", "k_d2", "k_d3"}

\* params.add(name, value=v) and params.add(name, value=v, vary=False)
Param(v, vary) == [value |-> v, vary |-> vary]

\* lines 56-72: the Parameters() built for the chemistry c
ParamsFor(c) ==
    IF c = "LFP"
    THEN [n \in ParamNames |->
             IF n = "k_d1" THEN Param(<<100000, 1>>, TRUE)
             ELSE IF n = "k_d2" THEN Param(<<-1, 2>>, TRUE)
             ELSE Param(<<0, 1>>, FALSE)]
    ELSE IF c = "NMC"
    THEN [n \in ParamNames |->
             IF n = "k_d1" THEN Param(<<10000, 1>>, TRUE)
             ELSE IF n = "k_d2" THEN Param(<<-1, 1>>, TRUE)
             ELSE Param(<<300, 1>>, TRUE)]
    ELSE IF c = "LMO"
    THEN [n \in ParamNames |->
             IF n = "k_d1" THEN Param(<<100000, 1>>, TRUE)
             ELSE IF n = "k_d2" THEN Param(<<-1, 2>>, TRUE)
             ELSE Param(<<-100000, 1>>, TRUE)]
    ELSE <<>>

\* the truth value Python gives a string: the empty string alone is false
Truthy(str) == str # ""

\* lines 74-79: the if / elif / else on the chemistry c; the elif condition
\* is (chemistry == "LMO") or "NMC"
ResidualsFor(c) ==
    IF c = "LFP" THEN "residuals_exp_deg_model_after_1_dod"
    ELSE IF c = "LMO" \/ Truthy("NMC")
    THEN "residuals_emp_deg_model_after_1_dod"
    ELSE "sys.exit"

\* the message of line 79
chemistry_message == "The chemistry is incorrect or not supported by the model"

\* what a call of minimize with no parameter at all ends in: the residual
\* functions look up params['k_d1'] (degradation_model.py lines 105, 132),
\* unless lmfit refuses the empty parameter set first
EmptyFitErrors == {"KeyError", "ValueError"}

InitFit ==
    /\ data_file_paths \in FileLists
    /\ file = 0
    /\ cyc_nb_v = <<>>
    /\ dod_v = <<>>
    /\ chemistry = "unbound"
    /\ params = <<>>
    /\ residuals = "unbound"
    /\ opt_params = <<>>
    /\ self_chemistry = <<>>
    /\ fits = <<>>
    /\ fpc = "for"
    /\ fit_err = "none"
    /\ series = <<>>
    /\ delta = 0
    /\ want = [flm |-> flm_default, l_ult |-> l_ult_default,
               uc_mult |-> uc_mult_default, scale |-> <<1, 1>>]
    /\ max_points = <<>>
    /\ min_points = <<>>
    /\ mean_soc = <<0, 1>>
    /\ arr_dod = <<>>
    /\ arr_n = <<>>
    /\ arr_soc_mean = <<>>
    /\ apc = "idle"
    /\ array_ext = <<>>
    /\ flm = flm_default
    /\ l_ult = l_ult_default
    /\ uc_mult = uc_mult_default
    /\ flmargin = 0
    /\ tot_num = 0
    /\ array_out = <<>>
    /\ pr = 0
    /\ po = 0
    /\ j = -1
    /\ a = <<>>
    /\ written = {}
    /\ i = 0
    /\ pc = "idle"
    /\ err = "none"
    /\ kinds = <<>>
    /\ hist = NoHist
    /\ origin = <<>>

\* lines 43-53: the next file is read and its chemistry parsed; [2] of a
\* name with fewer than three parts raises IndexError
FitRead ==
    /\ fpc = "for"
    /\ file < Len(data_file_paths)
    /\ cyc_nb_v' = Append(cyc_nb_v, file)
    /\ dod_v' = Append(dod_v, file)
    /\ LET parts == data_file_paths[file + 1]
       IN  IF Len(parts) < 3
           THEN /\ fpc' = "raised"
                /\ fit_err' = "IndexError"
                /\ UNCHANGED chemistry
           ELSE /\ chemistry' = parts[3]
                /\ fpc' = "params"
                /\ UNCHANGED fit_err
    /\ UNCHANGED <<data_file_paths, file, params, residuals, opt_params,
                   self_chemistry, fits>>
    /\ UNCHANGED <<rfvars, aggvars>>

\* line 43: no file is left
FitForExit ==
    /\ fpc = "for"
    /\ file >= Len(data_file_paths)
    /\ fpc' = "done"
    /\ UNCHANGED <<data_file_paths, file, cyc_nb_v, dod_v, chemistry, params,
                   residuals, opt_params, self_chemistry, fits, fit_err>>
    /\ UNCHANGED <<rfvars, aggvars>>

\* lines 56-72: the parameters and their initial values
FitParams ==
    /\ fpc = "params"
    /\ params' = ParamsFor(chemistry)
    /\ fpc' = "select"
    /\ UNCHANGED <<data_file_paths, file, cyc_nb_v, dod_v, chemistry,
                   residuals, opt_params, self_chemistry, fits, fit_err>>
    /\ UNCHANGED <<rfvars, aggvars>>

\* lines 74-79: the residual function is chosen, or the process exits
FitSelect ==
    /\ fpc = "select"
    /\ IF ResidualsFor(chemistry) = "sys.exit"
       THEN /\ fpc' = "exited"
            /\ fit_err' = chemistry_message
            /\ UNCHANGED residuals
       ELSE /\ residuals' = ResidualsFor(chemistry)
            /\ fpc' = "minimize"
            /\ UNCHANGED fit_err
    /\ UNCHANGED <<data_file_paths, file, cyc_nb_v, dod_v, chemistry, params,
                   opt_params, self_chemistry, fits>>
    /\ UNCHANGED <<rfvars, aggvars>>

\* lines 82-111: minimize is called with the function and the parameters;
\* its three results and the chemistry are stored and the next file is due
FitMinimize ==
    /\ fpc = "minimize"
    /\ fits' = Append(fits, [fcn |-> residuals, chemistry |-> chemistry,
                             names |-> DOMAIN params])
    /\ IF DOMAIN params = ParamNames
       THEN /\ opt_params' = opt_params \o <<"k_d1", "k_d2", "k_d3">>
            /\ self_chemistry' = Append(self_chemistry, chemistry)
            /\ file' = file + 1
            /\ fpc' = "for"
            /\ UNCHANGED fit_err
       ELSE /\ fpc' = "raised"
            /\ fit_err' \in EmptyFitErrors
            /\ UNCHANGED <<opt_params, self_chemistry, file>>
    /\ UNCHANGED <<data_file_paths, cyc_nb_v, dod_v, chemistry, params,
                   residuals>>
    /\ UNCHANGED <<rfvars, aggvars>>

NextFit ==
    \/ FitRead
    \/ FitForExit
    \/ FitParams
    \/ FitSelect
    \/ FitMinimize

SpecFit == InitFit /\ [][NextFit]_vars

(***************************************************************************)
(* Properties                                                              *)
(***************************************************************************)
\* the call received the default keyword arguments
Defaults ==
    flm = flm_default /\ l_ult = l_ult_default /\ uc_mult = uc_mult_default

\* the call returned its array
Returned == pc = "done" /\ err = "none"

RECURSIVE SumCount(_)
\* the sum of the count row over the first n columns written
SumCount(n) == IF n = 0 THEN 0 ELSE array_out[n].count + SumCount(n - 1)

\* zero-range intervals dropped, whatever the branch
Discarded == hist.zero_half + hist.zero_full + hist.zero_residual

\* C1 (as claimed): for n >= 2 turning points the counts of the returned
\* cycles sum to (n - 1) minus the number of discarded zero-range intervals.
C1_WeightsSumToIntervals ==
    (Returned /\ NPoints >= 2)
        => SumCount(po) = full_count * ((NPoints - 1) - Discarded)

\* C1 (amended): with uc_mult = 0.5 the counts of the returned cycles sum to
\* half of (n - 1) minus the discarded interval slots, a zero range dropped
\* in the full-range branch taking two slots (both its points leave "a").
C1_WeightsSumToHalfIntervals ==
    (Returned /\ NPoints >= 2 /\ uc_mult = uc_mult_default)
        => 2 * SumCount(po) =
               full_count * ((NPoints - 1) - hist.zero_half
                                 - hist.zero_residual - 2 * hist.zero_full)

\* a returned call with half, full and residual cycles and a zero range
\* dropped in the full-range branch
C1_Witness ==
    /\ Returned /\ NPoints >= 2 /\ uc_mult = uc_mult_default
    /\ hist.zero_full > 0 /\ hist.half > 0
    /\ \E k \in 1..po : kinds[k] = "residual"

\* C2: every column written has range > 0, in all three branches, and the
\* returned array holds exactly the columns written.
C2_NoZeroRange ==
    /\ \A k \in 1..po : array_out[k].lrange > 0
    /\ pc = "done" => Len(array_out) = po

\* a returned call that wrote columns and dropped a zero range both in the
\* three-point branch and among the residuals
C2_Witness ==
    /\ Returned /\ po > 0
    /\ hist.zero_half > 0 /\ hist.zero_residual > 0

\* the columns of the returned array all are (range 1, mean 0.5, count c)
AllUnitCycles(c) ==
    \A k \in 1..Len(array_out) :
        /\ array_out[k].lrange = 1
        /\ array_out[k].mean = <<1, 2>>
        /\ array_out[k].count = c

\* C3 (as claimed): 0,1,0,1,0,1,0 with the defaults returns 3 cycles of
\* range 1, mean 0.5, count 1.0 and none with the partial count.
C3_ThreeFullCycles ==
    (Returned /\ array_ext = alt_array_ext /\ Defaults)
        => Len(array_out) = 3 /\ AllUnitCycles(full_count)

\* C3 (amended): 0,1,0,1,0,1,0 with the defaults returns 6 cycles of range 1,
\* mean 0.5 and count 0.5: five closed with three points in "a" and one
\* residual; their counts sum to 3.0.
C3_SixHalfCycles ==
    (Returned /\ array_ext = alt_array_ext /\ Defaults)
        => /\ Len(array_out) = 6
           /\ AllUnitCycles(uc_mult_default)
           /\ kinds = <<"half", "half", "half", "half", "half", "residual">>
           /\ SumCount(po) = 3 * full_count

\* the call on 0,1,0,1,0,1,0 with the defaults has returned
C3_Witness ==
    Returned /\ array_ext = alt_array_ext /\ Defaults /\ Len(array_out) > 0

\* the range row and the count row of the returned array
RangeRow == [k \in 1..Len(array_out) |-> array_out[k].lrange]
CountRow == [k \in 1..Len(array_out) |-> array_out[k].count]

\* C4 (as claimed): the demo array with the defaults yields 4 cycles.
C4_FourCycles ==
    (Returned /\ array_ext = demo_array_ext /\ Defaults)
        => Len(array_out) = 4

\* C4 (amended): the demo array with the defaults yields 6 cycles: ranges
\* 5, 2, 1 closed during the scan (counts 0.5, 1, 1), then the residuals
\* 7, 6, 4 (count 0.5 each).
C4_SixCycles ==
    (Returned /\ array_ext = demo_array_ext /\ Defaults)
        => /\ Len(array_out) = 6
           /\ RangeRow = <<5, 2, 1, 7, 6, 4>>
           /\ CountRow = <<50, 100, 100, 50, 50, 50>>

\* the call on the demo array with the defaults has returned
C4_Witness ==
    Returned /\ array_ext = demo_array_ext /\ Defaults /\ po > 0

\* C5: a call with 0 or 1 turning points raises nothing and returns an array
\* with no cycle.
C5_ShortInputReturnsEmpty ==
    NPoints < 2
        => /\ err = "none"
           /\ pc # "raised"
           /\ pc = "done" => array_out = <<>>

\* the while condition holds on the three points on top of "a"
GuardHolds ==
    /\ pc = "while"
    /\ j >= 2
    /\ fabs(a[j - 1] - a[j - 2]) <= fabs(a[j] - a[j - 1])

\* the interval (A, B) under the top of "a", when its range is positive, is
\* the column written by the step
RecordsAB ==
    Recorded(fabs(a[j - 1] - a[j - 2]))
        => /\ po' = po + 1
           /\ array_out'[po'].lrange = fabs(a[j - 1] - a[j - 2])
           /\ array_out'[po'].mean = Mean(a[j - 2], a[j - 1])

\* A and B both leave "a": two points fewer, C the new top, the points below
\* A untouched, and the condition is evaluated again
RemovesAB ==
    /\ j' = j - 2
    /\ a'[j'] = a[j]
    /\ \A k \in 0..(j' - 1) : a'[k] = a[k]
    /\ pc' = "while"

\* only A leaves "a": one point fewer, B and C the two points left, and the
\* condition is evaluated again
RemovesA ==
    /\ j' = 1
    /\ a'[0] = a[1]
    /\ a'[1] = a[2]
    /\ pc' = "while"

\* C6 (as claimed): whenever |A-B| <= |B-C| on the top three points, (A,B)
\* is recorded and both A and B are removed, at every depth >= 3, three
\* points included.
C6_CollapseRemovesTwo ==
    [][GuardHolds => (RecordsAB /\ RemovesAB)]_vars

\* C6 (amended): whenever |A-B| <= |B-C| on the top three points, (A,B) is
\* recorded; with four or more points in "a" both A and B are removed, with
\* exactly three points only A is removed (the size drops by one); the rule
\* is then re-checked.
C6_CollapseRemovesTwoAboveThree ==
    [][GuardHolds =>
          (RecordsAB /\ (IF j >= 3 THEN RemovesAB ELSE RemovesA))]_vars

\* both kinds of collapse have happened, each on a range that was recorded
C6_Witness ==
    /\ hist.half > hist.zero_half
    /\ hist.full > hist.zero_full

\* C7 (as claimed): a column carries uc_mult exactly when it is a residual
\* written after the input is exhausted; a column written during the scan
\* carries 1.0.
C7_PartialIffResidual ==
    [][po' = po + 1 =>
          array_out'[po'].count =
              (IF pc = "residual" THEN uc_mult ELSE full_count)]_vars

\* C7 (amended): a column carries uc_mult when it is a residual or was closed
\* with exactly three points in "a" (j == 2), and 1.0 when it was closed with
\* four or more points in "a"; no other count is written.
C7_PartialUnlessFourPoints ==
    [][po' = po + 1 =>
          array_out'[po'].count =
              (IF pc = "while" /\ j >= 3 THEN full_count ELSE uc_mult)]_vars

\* a returned array with a column of each origin, uc_mult not being 1.0
C7_Witness ==
    /\ Returned /\ uc_mult # full_count
    /\ \A o \in {"half", "full", "residual"} : \E k \in 1..po : kinds[k] = o

\* C8 (as claimed): "a" never holds more than 3 unresolved points.
C8_StackAtMostThree == j + 1 <= 3

\* C8 (amended): "a" never holds more points than were consumed from the
\* input (j + 1 <= pr <= n); it can hold more than 3.
C8_StackAtMostConsumed == j + 1 <= pr /\ pr <= NPoints

\* "a" holds five points between two input points
C8_Witness == pc = "for" /\ j + 1 = 5

\* C9: no call returns a cycle whose Goodman-adjusted ranges are infinite or
\* NaN; an interval with |mean| = l_ult makes the call fail instead.
C9_NoInfiniteGoodman ==
    Returned =>
        \A k \in 1..Len(array_out) :
            /\ IsFinite(array_out[k].adj_range)
            /\ IsFinite(array_out[k].adj_zero_mean_range)

\* C10: with l_ult <= 0 no turning point is pushed, no cycle is written and
\* the call does not return normally.
C10_RejectsNonPositiveUltimateLoad ==
    l_ult <= 0 => (pr = 0 /\ po = 0 /\ pc # "done")

\* the cells of "a" the while condition reads
GuardCells == {Wrap(j - 1), Wrap(j - 2), Wrap(j)}

\* the while condition is about to be evaluated on valid indices
AtGuard == pc = "while" /\ InRange(j - 1) /\ InRange(j - 2) /\ InRange(j)

\* C11: the output depends on the arguments only: where the while condition
\* reads cells of "a" that were never assigned, its outcome is the same
\* whatever those cells hold, and every value that reaches a column (top
\* three points of a collapse, the two points of a residual) was assigned.
C11_GarbageNeverDecides ==
    /\ AtGuard =>
          \A x1, x2 \in ReadA(j - 1), y1, y2 \in ReadA(j - 2),
             z1, z2 \in ReadA(j) :
              WhileCond(x1, y1, z1) <=> WhileCond(x2, y2, z2)
    /\ (AtGuard /\ \E x \in ReadA(j - 1), y \in ReadA(j - 2), z \in ReadA(j) :
                       WhileCond(x, y, z))
          => GuardCells \subseteq written
    /\ (pc = "residual" /\ i < j) => {i, i + 1} \subseteq written

\* the while condition is evaluated on a cell never assigned, and the two
\* ranges compare differently for two contents that cell may have
C11_Witness ==
    /\ AtGuard
    /\ ~(GuardCells \subseteq written)
    /\ \E x1, x2 \in ReadA(j - 1), y1, y2 \in ReadA(j - 2), z \in ReadA(j) :
           /\ fabs(x1 - y1) <= fabs(z - x1)
           /\ ~(fabs(x2 - y2) <= fabs(z - x2))

\* the float product q * r of two quotients; inf * 0 and nan * r are nan
Times(q, r) ==
    IF q[2] = 0 \/ r[2] = 0
    THEN (IF q = <<0, 0>> \/ r = <<0, 0>> \/ q[1] = 0 \/ r[1] = 0
          THEN <<0, 0>>
          ELSE <<Sign(q[1]) * Sign(r[1]), 0>>)
    ELSE LET g1 == GCD(fabs(q[1]), r[2])
             g2 == GCD(fabs(r[1]), q[2])
         IN  Divide((q[1] \div g1) * (r[1] \div g2),
                    (q[2] \div g2) * (r[2] \div g1))

\* ultimate_load - |mean| of column k
LoadGap(k) ==
    Divide(l_ult * array_out[k].mean[2] - fabs(array_out[k].mean[1]),
           array_out[k].mean[2])

\* the two Goodman identities on column k
GoodmanIdentities(k) ==
    /\ Times(array_out[k].adj_range, LoadGap(k))
           = <<array_out[k].lrange * (l_ult - fabs(flm)), 1>>
    /\ Times(array_out[k].adj_zero_mean_range, LoadGap(k))
           = <<array_out[k].lrange * l_ult, 1>>
    /\ flm = 0 =>
           array_out[k].adj_range = array_out[k].adj_zero_mean_range

\* C12: on every column written, goodman_range * (ultimate_load - |mean|) =
\* range * (ultimate_load - |fixed_load_mean|) and goodman_zero_mean_range *
\* (ultimate_load - |mean|) = range * ultimate_load; with fixed_load_mean = 0
\* the two adjusted ranges are equal.
C12_GoodmanIdentities == \A k \in 1..po : GoodmanIdentities(k)

\* cells c and c + 1 of "a" hold two turning points of the input, the lower
\* cell the earlier one, and the column written by the step has their range
\* and their mean
WritesPair(c) ==
    LET m == origin[c]
        n == origin[c + 1]
    IN  /\ m \in DOMAIN array_ext /\ n \in DOMAIN array_ext
        /\ m < n
        /\ a[c] = array_ext[m] /\ a[c + 1] = array_ext[n]
        /\ array_out'[po'].lrange = fabs(array_ext[m] - array_ext[n])
        /\ array_out'[po'].mean = Divide(array_ext[m] + array_ext[n], 2)

\* C13: every column written has range |p - q| and mean (p + q) / 2 for two
\* turning points p, q of the input, p earlier than q, that are adjacent in
\* "a" when the column is written.
C13_CycleOfAdjacentPoints ==
    [][po' = po + 1 => \E c \in 0..(j - 1) : WritesPair(c)]_vars

\* a returned array of three or more columns, one of them a full cycle whose
\* mean is not an integer
C13_Witness ==
    /\ Returned /\ po >= 3
    /\ \E k \in 1..po : kinds[k] = "full" /\ array_out[k].mean[2] = 2

\* a step of the scan or of the residual loop keeps the columns written so
\* far and writes at most one more, right after them
AppendsOnly ==
    /\ po' \in {po, po + 1}
    /\ \A k \in 1..po : array_out'[k] = array_out[k]

\* the returning step hands back the po columns written, in writing order
ReturnsInWritingOrder ==
    /\ Len(array_out') = po
    /\ \A k \in 1..po : array_out'[k] = array_out[k]

\* a column written while pc is at the residual loop is the interval of cells
\* i, i + 1, the loop going up from the bottom of "a", and no residual
\* column is in the array while the scan is still writing
ResidualsLastBottomUp ==
    /\ (pc = "residual" /\ po' = po + 1) => (WritesPair(i) /\ i' = i + 1)
    /\ (pc = "while" /\ po' = po + 1) =>
           \A k \in 1..po : kinds[k] # "residual"

\* C14: the output lists the cycles in discovery order: the cycles closed
\* during the scan in the order of their collapses, then the residuals from
\* the oldest retained point to the newest; nothing is reordered.
C14_DiscoveryOrder ==
    [][/\ pc' # "raised" =>
              (IF pc = "residual" /\ pc' = "done"
               THEN ReturnsInWritingOrder
               ELSE AppendsOnly)
       /\ ResidualsLastBottomUp]_vars

\* a returned array with scan and residual columns whose ranges neither
\* ascend nor descend
C14_Witness ==
    /\ Returned
    /\ \E k \in 1..(po - 1) : array_out[k].lrange > array_out[k + 1].lrange
    /\ \E k \in 1..(po - 1) : array_out[k].lrange < array_out[k + 1].lrange
    /\ \E k \in 1..po : kinds[k] = "residual"
    /\ \E k \in 1..po : kinds[k] = "full"

\* C15: no step of the call changes the input array: same length, same value
\* at every position.
C15_InputUntouched == [][array_ext' = array_ext]_vars

\* a returned call whose collapses overwrote cells of "a", which no longer
\* holds the input
C15_Witness ==
    /\ Returned /\ hist.full > 0 /\ hist.half > 0
    /\ \E k \in DOMAIN a : a[k] # array_ext[k]

\* the call is over: it returned or raised
Halted == pc \in {"done", "raised"}

\* C16: the call terminates for every input: each pass of the collapse loop
\* lowers j, so the loop after a push ends, and once the input is exhausted
\* the residual loop runs to the return.
C16_Terminates ==
    /\ <>Halted
    /\ [][(pc = "while" /\ pc' = "while") => j' < j]_vars
    /\ (pc = "residual") ~> (pc = "done")

\* a returned call that went through both collapses and wrote residuals
C16_Witness ==
    /\ pc = "done" /\ hist.full > 0 /\ hist.half > 0
    /\ \E k \in 1..po : kinds[k] = "residual"
    /\ j >= 2

\* the extraction found no turning point
NoTurningPoints == apc # "new" /\ max_points = <<>> /\ min_points = <<>>

\* C17: when the series yields no turning point, building the CycleCounter
\* and running rainflow_process raises nothing and ends with an empty table.
C17_NoTurningPointsEmptyTable ==
    NoTurningPoints
        => /\ apc # "raised"
           /\ err = "none"
           /\ apc = "done" => (arr_dod = <<>> /\ arr_n = <<>>)

\* C18 (as claimed): mean_soc is the arithmetic mean of all samples of the
\* series.
C18_MeanOfSeries ==
    apc = "done" => mean_soc = Divide(SumSeq(series), Len(series))

\* C18 (amended): when rainflow_process completes, mean_soc is the arithmetic
\* mean of all samples of the series divided by 100 (percent to fraction);
\* the turning points do not enter it.
C18_MeanOfSeriesPercent ==
    apc = "done" => mean_soc = Divide(SumSeq(series), 100 * Len(series))

\* a finished rainflow_process on a series whose mean differs from the mean
\* of its turning points
C18_Witness ==
    /\ apc = "done"
    /\ mean_soc # <<0, 1>>
    /\ mean_soc # SeriesMean_turning

\* the turning points extracted, as a set of <<position, value>> pairs
Extracted ==
    {min_points[k] : k \in 1..Len(min_points)}
        \cup {max_points[k] : k \in 1..Len(max_points)}

\* the number of extracted points at a position before that of p
Rank(p) == Cardinality({q \in Extracted : q[1] < p[1]})

\* C19: the values handed to the counter are exactly the values of the
\* extracted minima and maxima, in the order of their positions.
C19_MergedByPosition ==
    apc \in {"counting", "done"}
        => /\ NPoints = Len(min_points) + Len(max_points)
           /\ Cardinality(Extracted) = NPoints
           /\ \A p \in Extracted : array_ext[Rank(p)] = p[2]

\* the counter was entered with two minima and two maxima at least
C19_Witness ==
    /\ apc = "counting"
    /\ Len(min_points) >= 2 /\ Len(max_points) >= 2

\* C20 (as claimed): the counter runs with the caller's fixed_load_mean,
\* ultimate_load and partial_cycle_weight.
C20_CallerConfiguration ==
    apc \in {"counting", "done"}
        => /\ flm = want.flm
           /\ l_ult = want.l_ult
           /\ uc_mult = want.uc_mult

\* C20 (amended): the counter always runs with the defaults (0, 1e16, 0.5),
\* whatever the caller has in mind: CycleCounter takes no such argument, and
\* the residual cycles of the table carry 0.5.
C20_DefaultConfiguration ==
    apc \in {"counting", "done"}
        => /\ flm = flm_default
           /\ l_ult = l_ult_default
           /\ uc_mult = uc_mult_default
           /\ \A k \in 1..po :
                  kinds[k] = "residual" => array_out[k].count = uc_mult_default

\* a finished rainflow_process with a residual cycle, for a caller who
\* wanted another configuration
C20_Witness ==
    /\ apc = "done"
    /\ want.uc_mult # uc_mult_default
    /\ \E k \in 1..po : kinds[k] = "residual"

\* row k of the counter's output, sorted by range, as the table shows it
TableRow(k) ==
    [dod |-> arr_dod[k], n |-> arr_n[k], soc_mean |-> arr_soc_mean[k]]

\* row k of the counter's output, sorted by range, scaled by the factor s
ScaledRow(k, s) ==
    [dod |-> Times(<<SortedByRange[k].lrange, 1>>, s),
     n |-> SortedByRange[k].count,
     soc_mean |-> Times(SortedByRange[k].mean, s)]

\* the three arrays of the table have one entry per counted cycle
TableShape ==
    /\ Len(arr_dod) = Len(array_out)
    /\ Len(arr_n) = Len(array_out)
    /\ Len(arr_soc_mean) = Len(array_out)

\* C21 (as claimed): the table's range and mean are the counter's range and
\* mean multiplied by the scale factor the caller chose (identity when none
\* is supplied); the weights are not rescaled.
C21_CallerScale ==
    apc = "done"
        => /\ TableShape
           /\ \A k \in 1..Len(array_out) : TableRow(k) = ScaledRow(k, want.scale)

\* C21 (amended): the table's range and mean are the counter's range and
\* mean divided by 100 (percent to fraction), whatever factor the caller has
\* in mind and also when none is wished; the weights are not rescaled.
C21_PercentScale ==
    apc = "done"
        => /\ TableShape
           /\ \A k \in 1..Len(array_out) : TableRow(k) = ScaledRow(k, <<1, 100>>)

\* a finished table of two cycles or more, one with a mean that is not 0,
\* for a caller who wished no rescaling
C21_Witness ==
    /\ apc = "done"
    /\ want.scale = <<1, 1>>
    /\ Len(arr_dod) >= 2
    /\ \E k \in 1..Len(arr_soc_mean) : arr_soc_mean[k][1] # 0

\* the extraction has run
Scanned == apc # "new"

\* the positions of the list tab ascend strictly and are samples of the series
Ascending(tab) ==
    /\ \A k \in 1..Len(tab) : tab[k][1] \in 0..(Len(series) - 1)
    /\ \A k \in 1..(Len(tab) - 1) : tab[k][1] < tab[k + 1][1]

\* between two points of the list tab lies a point of the list other
Interleaved(tab, other) ==
    \A k \in 1..(Len(tab) - 1) :
        \E m \in 1..Len(other) :
            tab[k][1] < other[m][1] /\ other[m][1] < tab[k + 1][1]

Predecessor(other, pos) ==
    {q \in {other[m] : m \in 1..Len(other)} :
        /\ q[1] < pos
        /\ \A m \in 1..Len(other) : other[m][1] < pos => other[m][1] <= q[1]}

\* C23: every reported extremum differs in value by at least delta from the
\* previously reported extremum of the opposite type, it is the value of the
\* series at its position, and a later sample of the series lies at least
\* delta below it (a maximum) or above it (a minimum).
C23_Hysteresis ==
    Scanned
        => /\ \A k \in 1..Len(max_points) :
                  LET p == max_points[k]
                  IN  /\ series[p[1] + 1] = p[2]
                      /\ \A q \in Predecessor(min_points, p[1]) :
                             p[2] - q[2] >= delta
                      /\ \E n \in (p[1] + 2)..Len(series) :
                             series[n] <= p[2] - delta
           /\ \A k \in 1..Len(min_points) :
                  LET p == min_points[k]
                  IN  /\ series[p[1] + 1] = p[2]
                      /\ \A q \in Predecessor(max_points, p[1]) :
                             q[2] - p[2] >= delta
                      /\ \E n \in (p[1] + 2)..Len(series) :
                             series[n] >= p[2] + delta

\* a scan with the threshold 2 of a series that also moves by 1, with a
\* maximum and a minimum reported
C23_Witness ==
    /\ Scanned
    /\ delta = 2
    /\ Len(max_points) >= 1 /\ Len(min_points) >= 1
    /\ \E k \in 1..(Len(series) - 1) : fabs(series[k + 1] - series[k]) = 1

\* the quotient q is not greater than the quotient r (both finite)
Leq(q, r) == q[1] * r[2] <= r[1] * q[2]

\* column k of the counter's output in the units of the table
CounterRow(k) ==
    [dod |-> Divide(array_out[k].lrange, 100), n |-> array_out[k].count,
     soc_mean |-> Divide(array_out[k].mean[1], 100 * array_out[k].mean[2])]

\* the rows of the table and the columns of the counter's output
TableRows == {TableRow(k) : k \in 1..Len(arr_dod)}
CounterRows == {CounterRow(k) : k \in 1..Len(array_out)}

\* C24: after rainflow_process arr_dod is in non-decreasing order, and the
\* three arrays are one and the same permutation of the counter's columns:
\* every (range, weight, mean) triple is in the table as many times as the
\* counter returned it, none lost and none duplicated.
C24_SortedSamePermutation ==
    apc = "done"
        => /\ TableShape
           /\ \A k \in 1..(Len(arr_dod) - 1) : Leq(arr_dod[k], arr_dod[k + 1])
           /\ \A t \in TableRows \cup CounterRows :
                  Cardinality({k \in 1..Len(arr_dod) : TableRow(k) = t})
                      = Cardinality({k \in 1..Len(array_out) : CounterRow(k) = t})

\* a finished table for which the sort had to move a cycle, the cycles
\* differing in weight or in mean, and two of them being equal
C24_Witness ==
    /\ apc = "done"
    /\ \E k \in 1..(Len(array_out) - 1) :
           /\ array_out[k].lrange > array_out[k + 1].lrange
           /\ \/ array_out[k].count # array_out[k + 1].count
              \/ array_out[k].mean # array_out[k + 1].mean
    /\ Cardinality(CounterRows) < Len(array_out)

\* the chemistries fit_stress_model_dod knows
Supported == {"LFP", "LMO", "NMC"}

\* the chemistry of the current file was parsed, is none of the three, and
\* the if / elif / else of lines 74-79 is behind
UnsupportedDecided ==
    /\ fpc \in {"minimize", "for", "done", "raised", "exited"}
    /\ chemistry # "unbound"
    /\ chemistry \notin Supported

\* C25: whenever the chemistry parsed from the data file is none of LFP,
\* LMO, NMC, fit_stress_model_dod exits with the error 'The chemistry is
\* incorrect or not supported by the model'; no residual function is
\* selected and no fit is run for such a chemistry.
C25_UnsupportedChemistryExits ==
    /\ UnsupportedDecided => (fpc = "exited" /\ fit_err = chemistry_message)
    /\ \A k \in 1..Len(fits) : fits[k].chemistry \in Supported

\* C26: for every input of n >= 2 points no step raises, a step that writes
\* a column writes exactly one, at an index po <= tot_num - 2 that is inside
\* the array allocated, and the number of columns written never exceeds
\* n - 1.
C26_OutputFits ==
    [][NPoints >= 2 =>
          /\ pc' # "raised"
          /\ po' <= NPoints - 1
          /\ po' # po =>
                 /\ po' = po + 1
                 /\ po <= tot_num - 2
                 /\ po' \in DOMAIN array_out]_vars

\* a returned call on four points or more that filled every column of the
\* array allocated
C26_Witness ==
    /\ Returned /\ NPoints >= 4
    /\ po = NPoints - 1
    /\ hist.half > 0

\* the collapse loop has exited for the points consumed so far
BetweenPoints == pc \in {"for", "residual", "done"} /\ j >= 0

\* the range of the interval between cells k and k + 1 of "a"
StackRange(k) == fabs(a[k + 1] - a[k])

\* C27: each time the collapse loop has exited, the ranges of consecutive
\* intervals retained in "a" decrease strictly from bottom to top; so the
\* residual columns are written in strictly decreasing range order and only
\* the last residual interval can have range 0 (at most one is dropped, and
\* then the residual loop is over).
C27_StackRangesDecrease ==
    /\ BetweenPoints =>
           \A k \in 0..(j - 2) : StackRange(k) > StackRange(k + 1)
    /\ \A k, m \in 1..po :
           (k < m /\ kinds[k] = "residual" /\ kinds[m] = "residual")
               => array_out[k].lrange > array_out[m].lrange
    /\ hist.zero_residual <= 1
    /\ hist.zero_residual = 1 => i >= j

\* a returned call that kept four points in "a", wrote two residual columns
\* and dropped the last residual interval for its range 0
C27_Witness ==
    /\ Returned /\ j >= 3
    /\ hist.zero_residual = 1
    /\ Cardinality({k \in 1..po : kinds[k] = "residual"}) >= 2

\* C28: each time the collapse loop has exited, the points consumed are the
\* points in "a" plus one per half-cycle collapse plus two per full-cycle
\* collapse; hence a returned call with uc_mult = 0.5 that dropped no
\* zero-range interval has weights summing to (n - 1) / 2.
C28_PointConservation ==
    /\ pc \in {"for", "residual", "done"}
           => pr = (j + 1) + hist.half + 2 * hist.full
    /\ (Returned /\ NPoints >= 2 /\ uc_mult = uc_mult_default /\ Discarded = 0)
           => 2 * SumCount(po) = full_count * (NPoints - 1)

\* a returned call with uc_mult = 0.5 that went through two full-cycle
\* collapses and a half-cycle one, dropped nothing and kept residuals
C28_Witness ==
    /\ Returned /\ uc_mult = uc_mult_default /\ Discarded = 0
    /\ hist.full >= 2 /\ hist.half >= 1 /\ j >= 2

\* the rule fires with exactly three points in "a": only the oldest point
\* leaves, and the interval, when recorded, carries uc_mult
ThreePointCollapse ==
    (GuardHolds /\ j = 2)
        => /\ RemovesA
           /\ RecordsAB
           /\ po' = po + 1 => array_out'[po'].count = uc_mult

\* with two points in "a" the condition is left at once: nothing is written
\* and the next input point is due
NoSecondCollapse ==
    (pc = "while" /\ j = 1) => (pc' = "for" /\ j' = j /\ po' = po)

\* the column the step writes is the interval of the cells j - 2, j - 1 of a
\* stack of four points or more, the bottom cell not being one of them
WrittenAboveBottom ==
    /\ pc = "while" /\ j >= 3
    /\ array_out'[po'].lrange = fabs(a[j - 1] - a[j - 2])
    /\ array_out'[po'].mean = Mean(a[j - 2], a[j - 1])
    /\ origin[0] \notin {origin[j - 2], origin[j - 1]}
    /\ a'[0] = a[0] /\ origin'[0] = origin[0]

\* C29 (as claimed): a collapse with exactly three points removes only the
\* oldest point, weights the interval uc_mult and is the last one for that
\* input point; a column of weight 1.0 is written only with four points or
\* more in "a", never with the bottom point as an endpoint.
C29_FullWeightNeedsFourPoints ==
    [][/\ ThreePointCollapse
       /\ NoSecondCollapse
       /\ (po' = po + 1 /\ array_out'[po'].count = full_count)
              => WrittenAboveBottom]_vars

\* C29 (amended): a collapse with exactly three points removes only the
\* oldest point, weights the interval uc_mult and is the last one for that
\* input point; a collapse with four points or more writes the weight 1.0
\* for an interval above the bottom point, and when uc_mult is not 1.0 no
\* other column carries the weight 1.0.
C29_FullWeightNeedsFourPointsUnlessUnitPartial ==
    [][/\ ThreePointCollapse
       /\ NoSecondCollapse
       /\ (pc = "while" /\ j >= 3 /\ po' = po + 1)
              => (array_out'[po'].count = full_count /\ WrittenAboveBottom)
       /\ (uc_mult # full_count /\ po' = po + 1
               /\ array_out'[po'].count = full_count)
              => WrittenAboveBottom]_vars

\* a returned call with the default uc_mult that recorded a three-point
\* collapse, a collapse with four points or more, and a residual
C29_Witness ==
    /\ Returned /\ uc_mult = uc_mult_default /\ j >= 1
    /\ \E k \in 1..po : kinds[k] = "half" /\ array_out[k].count = uc_mult
    /\ \E k \in 1..po : kinds[k] = "full" /\ array_out[k].count = full_count
    /\ \E k \in 1..po : kinds[k] = "residual"

\* the collapse loop has exited after n input points or more were consumed
ConsumedAtLeast(n) == pc \in {"for", "residual", "done"} /\ pr >= n

\* C30: in every state between input points the cells a[0..j] hold points
\* of the consumed input in their original order, the top one being the
\* point consumed last; 0 <= j <= consumed - 1, and once two points have
\* been consumed j is at least 1.
C30_StackIsSubsequence ==
    /\ ConsumedAtLeast(1) =>
           /\ 0 <= j /\ j <= pr - 1
           /\ \A k \in 0..j :
                  /\ origin[k] \in 0..(pr - 1)
                  /\ a[k] = array_ext[origin[k]]
           /\ \A k \in 0..(j - 1) : origin[k] < origin[k + 1]
           /\ origin[j] = pr - 1
    /\ ConsumedAtLeast(2) => j >= 1

\* between two input points, after collapses of both kinds, "a" holds three
\* points or more that are not consecutive in the input
C30_Witness ==
    /\ pc = "for" /\ j >= 2
    /\ hist.full > 0 /\ hist.half > 0
    /\ \E k \in 0..(j - 1) : origin[k + 1] > origin[k] + 1

====
